---- MODULE Spec2Model ----
(***************************************************************************)
(* silocore-go: tenant-scoped authorization and the per-request            *)
(* transaction binder.                                                     *)
(*                                                                         *)
(* Spec      one HTTP request at a time through the chain that             *)
(*           router.New + router.RegisterRoutes build (transaction         *)
(*           middleware, AuthMiddleware, RoleMiddleware, route gates,      *)
(*           handler), and through Manager.Middleware mounted directly     *)
(*           in front of a handler by a caller whose context already       *)
(*           carries the tenant id.                                        *)
(* SpecAuth  calls of DefaultAuthService (Login, SwitchTenantContext,      *)
(*           ValidateAccess, BuildAuthContext) against the stores and      *)
(*           the token codec.                                              *)
(* SpecCodec calls of jwt.Service (GenerateTokenPair, ValidateToken,       *)
(*           RefreshToken) as time passes.                                 *)
(***************************************************************************)
EXTENDS Integers, Sequences, FiniteSets, TLC

\* ------------------------------------------------------------------ bounds

\* The clock runs 0..MaxTime (one tick = one token lifetime unit).
MaxTime == 1

\* ------------------------------------------------------------ the universe

Users == {1, 2}
Tenants == {1, 2}

\* A nil *int64 tenant id (no tenant context).
NoTenant == 0
\* The zero user id GetUserID returns when the context holds none.
NoUser == 0

TenantOpt == Tenants \cup {NoTenant}

RoleAdmin == "ADMIN"
RoleInternal == "INTERNAL"
RoleTenantSuper == "TENANT_SUPER"
Roles == {RoleAdmin, RoleInternal, RoleTenantSuper}

StatusOK == 200
StatusUnauthorized == 401
StatusForbidden == 403
StatusInternalServerError == 500

\* Status codes a handler passes to WriteHeader; NotWritten: it never calls it.
NotWritten == 0
HandlerCodes == {101, 200, 499, 500, 503}

PanicVals == {"p1", "p2"}
NoPanic == "none"

VARIABLES
    \* backing stores
    members,        \* tenant_member rows: set of <<user, tenant>>
    userRoles,      \* user_role: [Users -> SUBSET Roles]
    grants,         \* tenant_role: set of <<user, tenant, role>>
    now,            \* the clock
    \* the request in flight
    req,            \* [chain, route, token, seed]
    idx,            \* position in the handler chain (0: no request in flight)
    ctx,            \* the request context as seen by the current stage
    trace,          \* stages entered and calls made on the transaction, in order
    faults,         \* store errors met by each stage entered, in order
    \* the binder's closure (Manager.Middleware)
    boundTenant,    \* tenantID read by the binder before calling next
    rwStatus,       \* responseWriter.statusCode
    txState,        \* "none" | "open" | "committed" | "rolledback"
    sessionFilter,  \* core.tenant_context of the transaction's connection
    cancelled,      \* the request context was cancelled while the tx was bound
    \* what the outside sees
    wire,           \* status line sent to the client (NotWritten: none yet)
    panicVal,       \* value the handler panicked with
    raised,         \* value the binder re-raised to its caller
    queryFilter,    \* sessionFilter seen by the handler's domain queries
    handlerCode,    \* code the handler passed to WriteHeader (NotWritten: none)
    clearErr,       \* ClearTenantContext was called and returned an error
    phase,          \* "idle" | "running" | "unwinding" | "done"
    \* DefaultAuthService and jwt.Service calls (SpecAuth, SpecCodec)
    call,           \* the call made, its arguments and its result
    \* tenant and role services (SpecStore, SpecRevoke)
    tenantRows,     \* tenant rows: set of tenant ids
    conns           \* per caller: the service call in progress and its transaction

storeVars == <<members, userRoles, grants, now, tenantRows, conns>>
reqVars == <<req, idx, ctx, trace, faults, boundTenant, rwStatus, txState, sessionFilter,
             cancelled, wire, panicVal, raised, queryFilter, handlerCode, clearErr, phase>>
vars == <<members, userRoles, grants, now, req, idx, ctx, trace, faults, boundTenant,
          rwStatus, txState, sessionFilter, cancelled, wire, panicVal, raised,
          queryFilter, handlerCode, clearErr, phase, call, tenantRows, conns>>

\* The concurrent callers of the tenant and role services, and a caller that
\* has no call in progress.
Procs == {1, 2}
NoConn == [op |-> "none", user |-> NoUser, tenant |-> NoTenant, role |-> "",
           pc |-> "idle", isMember |-> FALSE, raced |-> FALSE,
           insM |-> {}, delM |-> {}, insG |-> {}, delG |-> {}, delT |-> {},
           err |-> ""]
ServicesIdle ==
    /\ tenantRows = Tenants
    /\ conns = [p \in Procs |-> NoConn]

\* ------------------------------------------------------------- token codec

\* The lifetime of an access token in clock ticks (config.AccessExpiration).
AccessExpiration == 1
\* The lifetime of a refresh token in clock ticks (config.RefreshExpiration).
RefreshExpiration == 2

\* claims.Username of the tokens a user is issued (the e-mail address).
UsernameOf(u) == IF u = 1 THEN "u1" ELSE "u2"

\* C19 mutant: the payload never carries tenant_id.
MarshalWithoutTenant(userID, username, tenantID, exp) ==
    [user_id |-> userID, username |-> username, exp |-> exp]

\* The JSON payload of CustomClaims: tenant_id is omitted when TenantID is nil
\* (`json:"tenant_id,omitempty"`).
MarshalClaims(userID, username, tenantID, exp) ==
    IF tenantID = NoTenant
    THEN [user_id |-> userID, username |-> username, exp |-> exp]
    ELSE [user_id |-> userID, username |-> username, exp |-> exp, tenant_id |-> tenantID]

\* Decoding the payload into CustomClaims: an absent tenant_id is a nil TenantID.
UnmarshalClaims(payload) ==
    [UserID |-> payload.user_id,
     Username |-> payload.username,
     ExpiresAt |-> payload.exp,
     TenantID |-> IF "tenant_id" \in DOMAIN payload THEN payload.tenant_id ELSE NoTenant]

\* The algorithm generateToken signs with (jwt.SigningMethodHS256), the
\* algorithms of type *jwt.SigningMethodHMAC, and the ones a token can declare.
SigningMethod == "HS256"
SigningMethodHMAC == {"HS256", "HS384", "HS512"}
Algs == SigningMethodHMAC \cup {"RS256", "none"}

\* generateToken at time t: the payload signed with the configured secret.
\* sig is "ok" when the signature verifies under the configured secret with
\* the declared algorithm.
generateToken(userID, username, tenantID, expiration, t) ==
    [alg |-> SigningMethod,
     payload |-> MarshalClaims(userID, username, tenantID, t + expiration), sig |-> "ok"]

\* No token presented, and a token whose signature does not verify.
NoToken == [alg |-> SigningMethod, payload |-> MarshalClaims(NoUser, "", NoTenant, 0),
            sig |-> "absent"]
ForgedToken == [alg |-> SigningMethod, payload |-> MarshalClaims(1, "u1", 1, MaxTime + 1),
                sig |-> "bad"]

NoClaims == UnmarshalClaims(NoToken.payload)

\* The key function of ValidateToken: the secret is handed out only for a
\* token whose method is a *jwt.SigningMethodHMAC.
KeyFuncAccepts(alg) == alg \in SigningMethodHMAC

\* ValidateToken at time t: [err, claims]; err = "" when the token is valid.
ValidateToken(tok, t) ==
    LET claims == UnmarshalClaims(tok.payload) IN
    IF ~KeyFuncAccepts(tok.alg) THEN [err |-> "ErrInvalidToken", claims |-> NoClaims]
    ELSE IF tok.sig # "ok" THEN [err |-> "ErrInvalidToken", claims |-> NoClaims]
    ELSE IF t >= claims.ExpiresAt THEN [err |-> "ErrExpiredToken", claims |-> NoClaims]
    ELSE IF claims.UserID = NoUser THEN [err |-> "ErrMissingClaim", claims |-> NoClaims]
    ELSE [err |-> "", claims |-> claims]

\* jwt.Service.SwitchTenantContext at time t: [err, token].
JWTSwitchTenantContext(currentToken, newTenantID, t) ==
    LET v == ValidateToken(currentToken, t) IN
    IF v.err # "" THEN [err |-> v.err, token |-> NoToken]
    ELSE [err |-> "",
          token |-> generateToken(v.claims.UserID, v.claims.Username, newTenantID,
                                  AccessExpiration, t)]

NoPair == [access |-> NoToken, refresh |-> NoToken]

\* C20 mutant: the refresh token carries the tenant the pair was asked for.
GenerateScopedRefresh(userID, username, tenantID, t) ==
    [access |-> generateToken(userID, username, tenantID, AccessExpiration, t),
     refresh |-> generateToken(userID, username, tenantID, RefreshExpiration, t)]

\* GenerateTokenPair at time t.
GenerateTokenPair(userID, username, tenantID, t) ==
    [access |-> generateToken(userID, username, tenantID, AccessExpiration, t),
     refresh |-> generateToken(userID, username, NoTenant, RefreshExpiration, t)]

\* RefreshToken at time t: [err, pair].
RefreshToken(refreshToken, tenantID, t) ==
    LET v == ValidateToken(refreshToken, t) IN
    IF v.err # "" THEN [err |-> v.err, pair |-> NoPair]
    ELSE [err |-> "",
          pair |-> GenerateTokenPair(v.claims.UserID, v.claims.Username, tenantID, t)]

\* Access tokens the codec can have issued by time MaxTime.
IssuedTokens ==
    { generateToken(u, UsernameOf(u), t, AccessExpiration, at) :
        u \in Users, t \in TenantOpt, at \in 0 .. MaxTime }

\* The user whose requests Spec follows; the other users own rows and tokens
\* of their own.
Requester == CHOOSE u \in Users : \A v \in Users : u <= v

\* ----------------------------------------------------------------- stores

\* C27 mutant: the tenant scope of the token stands for the membership.
IsTenantMemberByScope(u, t) == t # NoTenant

\* C11 mutant: membership of any tenant counts for every tenant.
IsMemberOfAnyTenant(u, t) == \E x \in Tenants : <<u, x>> \in members

\* TenantMemberService.IsTenantMember
IsTenantMember(u, t) == <<u, t>> \in members

\* UserService.GetUserRoles
GetUserRoles(u) == userRoles[u]

\* C15 mutant: the tenant roles of a user in any tenant.
GetUserRolesInAnyTenant(u, t) == { r \in Roles : \E x \in Tenants : <<u, x, r>> \in grants }

\* UserService.GetUserTenantRoles
GetUserTenantRoles(u, t) == { r \in Roles : <<u, t, r>> \in grants }

\* authctx.HasRole / IsAdmin / IsTenantSuper over a context
HasRole(c, role) == role \in c.roles
\* C14 mutant: no context counts as a platform admin's.
IsAdminNever(c) == FALSE

IsAdmin(c) == HasRole(c, RoleAdmin)
IsTenantSuper(c) == HasRole(c, RoleTenantSuper)

EmptyCtx == [userID |-> NoUser, tenantID |-> NoTenant, roles |-> {}]

\* ------------------------------------------------- the registered chain

\* C8 mutant: the tenant routes' gates mounted in front of the role stage.
GatesBeforeRoles(route) ==
    CASE route = "public" -> <<"handler">>
      [] route = "admin" ->
            <<"AuthMiddleware", "RequireAdmin", "RoleMiddleware", "handler">>
      [] route = "tenant" ->
            <<"AuthMiddleware", "RequireTenantContext", "RoleMiddleware",
              "RequireTenantMember", "handler">>
      [] route = "tenantAdmin" ->
            <<"AuthMiddleware", "RequireTenantContext", "RoleMiddleware",
              "RequireTenantMember", "RequireTenantSuper", "handler">>
      [] route = "orders" ->
            <<"AuthMiddleware", "RoleMiddleware", "AuthMiddleware",
              "RoleMiddleware", "RequireTenantContext", "handler">>

\* The handlers a request passes after the transaction middleware, in order.
\* router.New + RegisterRoutes: router.Use(Middleware()), then per group
\* AuthMiddleware, RoleMiddleware, the route's gates, and the route handler.
\* order.RegisterRoutes applies AuthMiddleware and RoleMiddleware again.
RegisteredChain(route) ==
    CASE route = "public" -> <<"handler">>
      [] route = "admin" ->
            <<"AuthMiddleware", "RoleMiddleware", "RequireAdmin", "handler">>
      [] route = "tenant" ->
            <<"AuthMiddleware", "RoleMiddleware", "RequireTenantContext",
              "RequireTenantMember", "handler">>
      [] route = "tenantAdmin" ->
            <<"AuthMiddleware", "RoleMiddleware", "RequireTenantContext",
              "RequireTenantMember", "RequireTenantSuper", "handler">>
      [] route = "orders" ->
            <<"AuthMiddleware", "RoleMiddleware", "AuthMiddleware",
              "RoleMiddleware", "RequireTenantContext", "handler">>

Routes == {"public", "admin", "tenant", "tenantAdmin", "orders"}

\* next of Manager.Middleware: the registered chain, or the handler itself
\* when a caller mounts the binder directly in front of it.
Chain(r) == IF r.chain = "registered" THEN RegisteredChain(r.route) ELSE <<"handler">>

Stage == IF idx >= 1 /\ idx <= Len(Chain(req)) THEN Chain(req)[idx] ELSE "none"

\* The tenant id in the context that reaches Manager.Middleware.  Nothing in
\* front of it in the registered chain calls authctx.WithTenantID.
SeedsOf(chain) == IF chain = "registered" THEN {NoTenant} ELSE TenantOpt

\* ---------------------------------------------------- the transaction

\* C7 mutant: a transaction begun with context.Background() outlives the
\* request's cancellation.
TxIgnoresCtx == FALSE

\* database/sql: m.db.BeginTx(ctx, nil) ties the transaction to the request
\* context; when that context is cancelled the package rolls it back.
TxFollowsCtx == TRUE

\* C5 mutant: the commit range closed at 500.
ShouldCommitUpTo500(status) == status >= StatusOK /\ status <= StatusInternalServerError

\* responseWriter.statusCode >= 200 && < 500: commit, else roll back.
ShouldCommit(status) == status >= StatusOK /\ status < StatusInternalServerError

\* C4 mutant: the deferred function recovers and does not panic again.
SwallowPanic(rec) == NoPanic

\* The value the deferred function re-panics with after the rollback.
RepanicValue(rec) == rec

\* C3 mutant: the deferred function without its else branch.
DeferCallsNoElse(panicked, tenant, status) ==
    IF panicked THEN <<"Rollback">>
    ELSE (IF tenant # NoTenant THEN <<"ClearTenantContext">> ELSE <<>>)
         \o (IF ShouldCommit(status) THEN <<"Commit">> ELSE <<>>)

\* The calls the deferred function of Manager.Middleware makes on the
\* transaction: on a panic Rollback and nothing else (it re-panics); otherwise
\* ClearTenantContext when the binder saw a tenant, then Commit or Rollback.
DeferCalls(panicked, tenant, status) ==
    IF panicked THEN <<"Rollback">>
    ELSE (IF tenant # NoTenant THEN <<"ClearTenantContext">> ELSE <<>>)
         \o <<IF ShouldCommit(status) THEN "Commit" ELSE "Rollback">>

\* http.ResponseWriter.WriteHeader on the connection: the first status wins.
WriteWire(w, code) == IF w = NotWritten THEN code ELSE w

\* One call on the transaction.  s = [tx, filter, wire, clearErr]; ok: the database
\* carries the statement out.  A transaction that is no longer open answers
\* ErrTxDone.  A rollback discards the set_config made inside the transaction;
\* a failed Commit leaves the transaction rolled back and answers 500.
TxCall(s, c, ok) ==
    CASE c = "Rollback" ->
            [s EXCEPT !.tx = IF s.tx = "open" THEN "rolledback" ELSE s.tx,
                      !.filter = NoTenant]
      [] c = "Commit" ->
            IF s.tx = "open" /\ ok
            THEN [s EXCEPT !.tx = "committed"]
            ELSE [s EXCEPT !.tx = IF s.tx = "open" THEN "rolledback" ELSE s.tx,
                           !.filter = NoTenant,
                           !.wire = WriteWire(s.wire, StatusInternalServerError)]
      [] c = "ClearTenantContext" ->
            IF s.tx = "open" /\ ok
            THEN [s EXCEPT !.filter = NoTenant]
            ELSE [s EXCEPT !.clearErr = TRUE]

RECURSIVE TxCalls(_, _, _, _)
TxCalls(s, cs, clearOk, commitOk) ==
    IF cs = <<>> THEN s
    ELSE TxCalls(TxCall(s, Head(cs), IF Head(cs) = "Commit" THEN commitOk ELSE clearOk),
                 Tail(cs), clearOk, commitOk)

\* ------------------------------------------------------------ requests

Tokens == { k \in IssuedTokens : k.payload.user_id = Requester } \cup {NoToken, ForgedToken}

Requests ==
    { [chain |-> c, route |-> r, token |-> k, seed |-> sd] :
        c \in {"registered"}, r \in Routes, k \in Tokens, sd \in SeedsOf("registered") }
    \cup
    { [chain |-> c, route |-> r, token |-> k, seed |-> sd] :
        c \in {"direct"}, r \in {"direct"}, k \in {NoToken}, sd \in SeedsOf("direct") }

NoRequest == [chain |-> "none", route |-> "none", token |-> NoToken, seed |-> NoTenant]

\* A request arrives: fresh request state; the pooled connection keeps its
\* session, the stores keep their rows.
NewRequest ==
    /\ phase \in {"idle", "done"}
    /\ \E r \in Requests :
        /\ req' = r
        /\ ctx' = [EmptyCtx EXCEPT !.tenantID = r.seed]
    /\ idx' = 0
    /\ trace' = <<>>
    /\ faults' = <<>>
    /\ boundTenant' = NoTenant
    /\ rwStatus' = NotWritten
    /\ txState' = "none"
    /\ cancelled' = FALSE
    /\ wire' = NotWritten
    /\ panicVal' = NoPanic
    /\ raised' = NoPanic
    /\ queryFilter' = NoTenant
    /\ handlerCode' = NotWritten
    /\ clearErr' = FALSE
    /\ phase' = "binder"
    /\ UNCHANGED <<storeVars, sessionFilter, call>>

\* Manager.Middleware up to next.ServeHTTP: Begin, newResponseWriter, and
\* SetTenantContext when the context it was handed carries a tenant id.
MiddlewareEnter ==
    /\ phase = "binder"
    /\ \E beginOk \in BOOLEAN, setOk \in BOOLEAN :
        LET tenantID == ctx.tenantID IN
        /\ (~beginOk \/ tenantID = NoTenant) => setOk
        /\ IF ~beginOk
           THEN /\ trace' = <<"Begin">>
                /\ wire' = WriteWire(wire, StatusInternalServerError)
                /\ phase' = "done"
                /\ UNCHANGED <<txState, sessionFilter, boundTenant, rwStatus, idx>>
           ELSE IF tenantID # NoTenant /\ ~setOk
           THEN /\ trace' = <<"Begin", "SetTenantContext", "Rollback">>
                /\ txState' = "rolledback"
                /\ sessionFilter' = NoTenant
                /\ wire' = WriteWire(wire, StatusInternalServerError)
                /\ phase' = "done"
                /\ boundTenant' = tenantID
                /\ UNCHANGED <<rwStatus, idx>>
           ELSE /\ trace' = IF tenantID # NoTenant
                            THEN <<"Begin", "SetTenantContext">> ELSE <<"Begin">>
                /\ txState' = "open"
                /\ sessionFilter' = IF tenantID # NoTenant THEN tenantID ELSE sessionFilter
                /\ boundTenant' = tenantID
                /\ rwStatus' = StatusOK
                /\ idx' = 1
                /\ phase' = "running"
                /\ UNCHANGED wire
    /\ UNCHANGED <<storeVars, req, ctx, faults, cancelled, panicVal, raised, queryFilter,
                   handlerCode, clearErr, call>>

\* A stage answers with http.Error(w, ..., code) and returns: the status goes
\* through the binder's responseWriter, and control unwinds to the binder.
Reject(code) ==
    /\ rwStatus' = code
    /\ wire' = WriteWire(wire, code)
    /\ phase' = "unwinding"
    /\ UNCHANGED <<ctx, idx>>

\* A stage calls next.ServeHTTP with context c.
Forward(c) ==
    /\ ctx' = c
    /\ idx' = idx + 1
    /\ UNCHANGED <<rwStatus, wire, phase>>

stageFrame == <<storeVars, req, boundTenant, txState, sessionFilter, cancelled,
                panicVal, raised, queryFilter, handlerCode, clearErr, call>>

\* AuthMiddleware
AuthMiddleware ==
    /\ phase = "running" /\ Stage = "AuthMiddleware"
    /\ trace' = Append(trace, "AuthMiddleware")
    /\ faults' = Append(faults, {})
    /\ LET v == ValidateToken(req.token, now) IN
       IF req.token = NoToken \/ v.err # ""
       THEN Reject(StatusUnauthorized)
       ELSE Forward([ctx EXCEPT !.userID = v.claims.UserID,
                                !.tenantID = IF v.claims.TenantID # NoTenant
                                             THEN v.claims.TenantID ELSE @])
    /\ UNCHANGED stageFrame

\* RoleMiddleware.  The three lookups may each fail with a store error.
RoleMiddleware ==
    /\ phase = "running" /\ Stage = "RoleMiddleware"
    /\ trace' = Append(trace, "RoleMiddleware")
    /\ \E rolesErr \in BOOLEAN, memberErr \in BOOLEAN, tenantRolesErr \in BOOLEAN :
        LET roles == IF rolesErr THEN {} ELSE GetUserRoles(ctx.userID)
            c1 == [ctx EXCEPT !.roles = roles]
            isMember == ~memberErr /\ IsTenantMember(ctx.userID, ctx.tenantID)
        IN
        /\ faults' = Append(faults, (IF rolesErr THEN {"roles"} ELSE {})
                                     \cup (IF memberErr THEN {"member"} ELSE {})
                                     \cup (IF tenantRolesErr THEN {"tenantRoles"} ELSE {}))
        /\ (ctx.userID = NoUser) => (~rolesErr /\ ~memberErr /\ ~tenantRolesErr)
        /\ (ctx.tenantID = NoTenant) => (~memberErr /\ ~tenantRolesErr)
        /\ IF ctx.userID = NoUser
           THEN Reject(StatusUnauthorized)
           ELSE IF ctx.tenantID = NoTenant
           THEN Forward(c1)
           ELSE IF ~isMember /\ ~IsAdmin(c1)
           THEN /\ ~tenantRolesErr
                /\ Reject(StatusForbidden)
           ELSE IF tenantRolesErr
           THEN Forward(c1)
           ELSE Forward([c1 EXCEPT !.roles =
                            roles \cup GetUserTenantRoles(ctx.userID, ctx.tenantID)])
    /\ UNCHANGED stageFrame

\* RequireAdmin
RequireAdmin ==
    /\ phase = "running" /\ Stage = "RequireAdmin"
    /\ trace' = Append(trace, "RequireAdmin")
    /\ faults' = Append(faults, {})
    /\ IF ~IsAdmin(ctx) THEN Reject(StatusForbidden) ELSE Forward(ctx)
    /\ UNCHANGED stageFrame

\* RequireTenantContext
RequireTenantContext ==
    /\ phase = "running" /\ Stage = "RequireTenantContext"
    /\ trace' = Append(trace, "RequireTenantContext")
    /\ faults' = Append(faults, {})
    /\ IF ctx.tenantID = NoTenant THEN Reject(StatusForbidden) ELSE Forward(ctx)
    /\ UNCHANGED stageFrame

\* RequireTenantSuper
RequireTenantSuper ==
    /\ phase = "running" /\ Stage = "RequireTenantSuper"
    /\ trace' = Append(trace, "RequireTenantSuper")
    /\ faults' = Append(faults, {})
    /\ IF ctx.tenantID = NoTenant THEN Reject(StatusForbidden)
       ELSE IF IsAdmin(ctx) THEN Forward(ctx)
       ELSE IF ~IsTenantSuper(ctx) THEN Reject(StatusForbidden)
       ELSE Forward(ctx)
    /\ UNCHANGED stageFrame

\* C12 mutant: the gate lets the request through when its check fails.
RequireTenantMemberFailOpen ==
    /\ phase = "running" /\ Stage = "RequireTenantMember"
    /\ trace' = Append(trace, "RequireTenantMember")
    /\ \E memberErr \in BOOLEAN :
        /\ faults' = Append(faults, IF memberErr THEN {"member"} ELSE {})
        /\ (ctx.tenantID = NoTenant \/ ctx.userID = NoUser \/ IsAdmin(ctx)) => ~memberErr
        /\ IF ctx.tenantID = NoTenant THEN Reject(StatusForbidden)
           ELSE IF ctx.userID = NoUser THEN Reject(StatusUnauthorized)
           ELSE IF IsAdmin(ctx) THEN Forward(ctx)
           ELSE IF memberErr THEN Forward(ctx)
           ELSE IF ~IsTenantMember(ctx.userID, ctx.tenantID) THEN Reject(StatusForbidden)
           ELSE Forward(ctx)
    /\ UNCHANGED stageFrame

\* RequireTenantMember
RequireTenantMember ==
    /\ phase = "running" /\ Stage = "RequireTenantMember"
    /\ trace' = Append(trace, "RequireTenantMember")
    /\ \E memberErr \in BOOLEAN :
        /\ faults' = Append(faults, IF memberErr THEN {"member"} ELSE {})
        /\ (ctx.tenantID = NoTenant \/ ctx.userID = NoUser \/ IsAdmin(ctx)) => ~memberErr
        /\ IF ctx.tenantID = NoTenant THEN Reject(StatusForbidden)
           ELSE IF ctx.userID = NoUser THEN Reject(StatusUnauthorized)
           ELSE IF IsAdmin(ctx) THEN Forward(ctx)
           ELSE IF memberErr THEN Reject(StatusInternalServerError)
           ELSE IF ~IsTenantMember(ctx.userID, ctx.tenantID) THEN Reject(StatusForbidden)
           ELSE Forward(ctx)
    /\ UNCHANGED stageFrame

\* The route handler: it runs its domain queries on the bound transaction,
\* then either returns (having called WriteHeader with some code, or not at
\* all) or panics.
Handler ==
    /\ phase = "running" /\ Stage = "handler"
    /\ trace' = Append(trace, "handler")
    /\ queryFilter' = sessionFilter
    /\ \E code \in HandlerCodes \cup {NotWritten}, p \in PanicVals \cup {NoPanic} :
        /\ (p # NoPanic) => code \in {NotWritten, StatusOK}
        /\ rwStatus' = IF code = NotWritten THEN rwStatus ELSE code
        /\ wire' = IF code = NotWritten THEN wire ELSE WriteWire(wire, code)
        /\ panicVal' = p
        /\ handlerCode' = code
    /\ phase' = "unwinding"
    /\ UNCHANGED <<storeVars, req, idx, ctx, faults, boundTenant, txState, sessionFilter,
                   cancelled, raised, clearErr, call>>

\* The request context is cancelled (client gone, middleware.Timeout deadline)
\* while the transaction is bound.
Cancel ==
    /\ phase \in {"running", "unwinding"}
    /\ ~cancelled
    /\ cancelled' = TRUE
    /\ txState' = IF TxFollowsCtx /\ txState = "open" THEN "rolledback" ELSE txState
    /\ sessionFilter' = IF TxFollowsCtx /\ txState = "open" THEN NoTenant ELSE sessionFilter
    /\ UNCHANGED <<storeVars, req, idx, ctx, trace, faults, boundTenant, rwStatus, wire,
                   panicVal, raised, queryFilter, handlerCode, clearErr, phase, call>>

\* The deferred function of Manager.Middleware, run when next returns or
\* panics; then the response is completed: net/http sends 200 for a handler
\* that wrote nothing, chi's Recoverer answers a panic with 500.
MiddlewareDefer ==
    /\ phase = "unwinding"
    /\ \E clearOk \in BOOLEAN, commitOk \in BOOLEAN :
        LET panicked == panicVal # NoPanic
            calls == DeferCalls(panicked, boundTenant, rwStatus)
            repanic == IF panicked THEN RepanicValue(panicVal) ELSE NoPanic
            s == TxCalls([tx |-> txState, filter |-> sessionFilter, wire |-> wire,
                          clearErr |-> FALSE],
                         calls, clearOk, commitOk)
        IN
        /\ ("ClearTenantContext" \notin {calls[i] : i \in 1 .. Len(calls)}) => clearOk
        /\ ("Commit" \notin {calls[i] : i \in 1 .. Len(calls)}) => commitOk
        /\ trace' = trace \o calls
        /\ txState' = s.tx
        /\ sessionFilter' = s.filter
        /\ raised' = repanic
        /\ clearErr' = s.clearErr
        /\ wire' = WriteWire(s.wire, IF repanic # NoPanic
                                     THEN StatusInternalServerError ELSE StatusOK)
    /\ phase' = "done"
    /\ UNCHANGED <<storeVars, req, idx, ctx, faults, boundTenant, rwStatus, cancelled,
                   panicVal, queryFilter, handlerCode, call>>

\* ------------------------------------------------------ specification

\* The rows the stores hold when the requests are served: any memberships of
\* the requester, who is a platform admin or not and holds, in the tenants it
\* belongs to, no tenant role, TENANT_SUPER, or ADMIN (AssignTenantRole takes
\* any role id); the other users are plain members.
GrantedRoles == {{}, {RoleTenantSuper}, {RoleAdmin}}
Stores ==
    { [m |-> m, a |-> a, g |-> g] :
        m \in SUBSET ({Requester} \X Tenants), a \in SUBSET {Requester}, g \in GrantedRoles }

NoCall == [op |-> "none", userID |-> NoUser, token |-> NoToken, target |-> NoTenant,
           storeErr |-> FALSE, at |-> 0, err |-> "", out |-> NoToken]

\* No request in flight.
RequestIdle ==
    /\ req = NoRequest
    /\ idx = 0
    /\ ctx = EmptyCtx
    /\ trace = <<>>
    /\ faults = <<>>
    /\ boundTenant = NoTenant
    /\ rwStatus = NotWritten
    /\ txState = "none"
    /\ sessionFilter = NoTenant
    /\ cancelled = FALSE
    /\ wire = NotWritten
    /\ panicVal = NoPanic
    /\ raised = NoPanic
    /\ queryFilter = NoTenant
    /\ handlerCode = NotWritten
    /\ clearErr = FALSE
    /\ phase = "idle"

\* Requests are served at time MaxTime, with tokens issued at 0 .. MaxTime.
Init ==
    /\ \E st \in Stores :
        /\ members = st.m \cup { <<u, t>> \in Users \X Tenants : u # Requester /\ u = t }
        /\ userRoles = [u \in Users |-> IF u \in st.a THEN {RoleAdmin} ELSE {}]
        /\ grants = { <<mt[1], mt[2], r>> : mt \in st.m, r \in st.g }
    /\ now = MaxTime
    /\ RequestIdle
    /\ call = NoCall
    /\ ServicesIdle

Next ==
    \/ NewRequest
    \/ MiddlewareEnter
    \/ AuthMiddleware
    \/ RoleMiddleware
    \/ RequireAdmin
    \/ RequireTenantContext
    \/ RequireTenantMember
    \/ RequireTenantSuper
    \/ Handler
    \/ Cancel
    \/ MiddlewareDefer

Spec == Init /\ [][Next]_vars

\* ------------------------------------------------- DefaultAuthService

\* C9 mutant: the tenant branch with a platform-admin short-circuit.
SwitchWithAdminBypass(userID, currentToken, newTenantID, rolesErr, memberErr, t) ==
    IF newTenantID = NoTenant
    THEN IF rolesErr THEN [err |-> "failed to get user roles", token |-> NoToken]
         ELSE IF RoleAdmin \notin GetUserRoles(userID)
         THEN [err |-> "ErrUnauthorized", token |-> NoToken]
         ELSE JWTSwitchTenantContext(currentToken, NoTenant, t)
    ELSE IF memberErr THEN [err |-> "failed to check tenant membership", token |-> NoToken]
         ELSE IF ~IsTenantMember(userID, newTenantID) /\ RoleAdmin \notin GetUserRoles(userID)
         THEN [err |-> "ErrUnauthorized", token |-> NoToken]
         ELSE JWTSwitchTenantContext(currentToken, newTenantID, t)

\* DefaultAuthService.SwitchTenantContext at time t: [err, token].  rolesErr,
\* memberErr: the store lookup it makes fails.
SwitchTenantContext(userID, currentToken, newTenantID, rolesErr, memberErr, t) ==
    IF newTenantID = NoTenant
    THEN IF rolesErr THEN [err |-> "failed to get user roles", token |-> NoToken]
         ELSE IF RoleAdmin \notin GetUserRoles(userID)
         THEN [err |-> "ErrUnauthorized", token |-> NoToken]
         ELSE JWTSwitchTenantContext(currentToken, NoTenant, t)
    ELSE IF memberErr THEN [err |-> "failed to check tenant membership", token |-> NoToken]
         ELSE IF ~IsTenantMember(userID, newTenantID)
         THEN [err |-> "ErrUnauthorized", token |-> NoToken]
         ELSE JWTSwitchTenantContext(currentToken, newTenantID, t)

\* C16 mutant: required roles matched against system and tenant roles alike.
ValidateAccessAnyRole(userID, tenantID, requiredRoles, rolesErr, memberErr, tenantRolesErr) ==
    IF rolesErr THEN "failed to get user roles"
    ELSE IF RoleAdmin \in GetUserRoles(userID) THEN ""
    ELSE IF tenantID = NoTenant THEN ""
    ELSE IF memberErr THEN "failed to check tenant membership"
    ELSE IF ~IsTenantMember(userID, tenantID) THEN "ErrUnauthorized"
    ELSE IF requiredRoles = {} THEN ""
    ELSE IF tenantRolesErr THEN "failed to get tenant roles"
    ELSE IF requiredRoles \cap (GetUserRoles(userID) \cup GetUserTenantRoles(userID, tenantID)) = {}
    THEN "ErrUnauthorized"
    ELSE ""

\* The usr rows: every user's e-mail address is its username, and each has a
\* password of its own.
Emails == { UsernameOf(u) : u \in Users } \cup {"nobody"}
Passwords == {"pw1", "pw2", "wrong"}
PasswordOf(u) == IF u = 1 THEN "pw1" ELSE "pw2"

\* GetUserByEmail: the user's id, NoUser for ErrUserNotFound.
GetUserByEmail(email) ==
    IF \E u \in Users : UsernameOf(u) = email
    THEN CHOOSE u \in Users : UsernameOf(u) = email
    ELSE NoUser

\* VerifyPassword against the stored hash of the user's password.
VerifyPassword(u, password) == password = PasswordOf(u)

\* C24 mutant: the query ordered by created_at DESC.
GetUserLatestTenant(u) ==
    IF \E t \in Tenants : <<u, t>> \in members
    THEN CHOOSE t \in Tenants :
            <<u, t>> \in members /\ \A x \in Tenants : <<u, x>> \in members => t >= x
    ELSE NoTenant

\* GetUserDefaultTenant: the user's earliest membership (tenants are numbered
\* in the order they were joined), NoTenant when it has none.
GetUserDefaultTenant(u) ==
    IF \E t \in Tenants : <<u, t>> \in members
    THEN CHOOSE t \in Tenants :
            <<u, t>> \in members /\ \A x \in Tenants : <<u, x>> \in members => t <= x
    ELSE NoTenant

LoginFailed(err) == [err |-> err, pair |-> NoPair, userID |-> NoUser]

\* C17 mutant: a wrong password is answered with the id of the user found.
LoginNamesUser(email, password, lookupErr, verifyErr, tenantErr, t) ==
    LET u == GetUserByEmail(email) IN
    IF lookupErr THEN LoginFailed("ErrDBOperation")
    ELSE IF u = NoUser THEN LoginFailed("ErrInvalidCredentials")
    ELSE IF verifyErr THEN LoginFailed("invalid hash format")
    ELSE IF ~VerifyPassword(u, password)
    THEN [LoginFailed("ErrInvalidCredentials") EXCEPT !.userID = u]
    ELSE IF tenantErr THEN LoginFailed("ErrDBOperationTM")
    ELSE [err |-> "", pair |-> GenerateTokenPair(u, email, GetUserDefaultTenant(u), t),
          userID |-> u]

\* DefaultAuthService.Login (loginWithVerifier) at time t: [err, pair, userID].
Login(email, password, lookupErr, verifyErr, tenantErr, t) ==
    LET u == GetUserByEmail(email) IN
    IF lookupErr THEN LoginFailed("ErrDBOperation")
    ELSE IF u = NoUser THEN LoginFailed("ErrInvalidCredentials")
    ELSE IF verifyErr THEN LoginFailed("invalid hash format")
    ELSE IF ~VerifyPassword(u, password) THEN LoginFailed("ErrInvalidCredentials")
    ELSE IF tenantErr THEN LoginFailed("ErrDBOperationTM")
    ELSE [err |-> "", pair |-> GenerateTokenPair(u, email, GetUserDefaultTenant(u), t),
          userID |-> u]

\* DefaultAuthService.ValidateAccess: "" is a nil error.
ValidateAccess(userID, tenantID, requiredRoles, rolesErr, memberErr, tenantRolesErr) ==
    IF rolesErr THEN "failed to get user roles"
    ELSE IF RoleAdmin \in GetUserRoles(userID) THEN ""
    ELSE IF tenantID = NoTenant THEN ""
    ELSE IF memberErr THEN "failed to check tenant membership"
    ELSE IF ~IsTenantMember(userID, tenantID) THEN "ErrUnauthorized"
    ELSE IF requiredRoles = {} THEN ""
    ELSE IF tenantRolesErr THEN "failed to get tenant roles"
    ELSE IF requiredRoles \cap GetUserTenantRoles(userID, tenantID) = {}
    THEN "ErrUnauthorized"
    ELSE ""

\* DefaultAuthService.BuildAuthContext: the context it returns and its error.
BuildAuthContext(userID, tenantID, rolesErr, tenantRolesErr) ==
    LET c0 == [EmptyCtx EXCEPT !.userID = userID, !.tenantID = tenantID]
        systemRoles == GetUserRoles(userID)
    IN
    IF rolesErr THEN [err |-> "failed to get user roles", ctx |-> c0]
    ELSE IF tenantID # NoTenant /\ tenantRolesErr
    THEN [err |-> "failed to get tenant roles", ctx |-> c0]
    ELSE [err |-> "",
          ctx |-> [c0 EXCEPT !.roles =
                     IF tenantID # NoTenant
                     THEN systemRoles \cup GetUserTenantRoles(userID, tenantID)
                     ELSE systemRoles]]

\* The tokens a caller can hand in: anything the codec issued, or a forgery.
CallTokens == IssuedTokens \cup {ForgedToken}

\* A caller invokes SwitchTenantContext (one call is followed per behaviour).
CallSwitchTenantContext ==
    \E u \in Users, k \in CallTokens, target \in TenantOpt,
       rolesErr \in BOOLEAN, memberErr \in BOOLEAN :
        /\ call = NoCall
        /\ (target = NoTenant) => ~memberErr
        /\ (target # NoTenant) => ~rolesErr
        /\ LET r == SwitchTenantContext(u, k, target, rolesErr, memberErr, now) IN
           call' = [op |-> "SwitchTenantContext", userID |-> u, token |-> k,
                    target |-> target, storeErr |-> (rolesErr \/ memberErr),
                    at |-> now, err |-> r.err, out |-> r.token]
        /\ UNCHANGED <<storeVars, reqVars>>

\* The role sets a caller of ValidateAccess requires.
RequiredRoleSets == {{}, {RoleTenantSuper}, {RoleInternal}, {RoleAdmin, RoleInternal}}

\* A caller invokes ValidateAccess.
CallValidateAccess ==
    \E u \in Users, target \in TenantOpt, required \in RequiredRoleSets,
       rolesErr \in BOOLEAN, memberErr \in BOOLEAN, tenantRolesErr \in BOOLEAN :
        /\ call = NoCall
        /\ (rolesErr \/ target = NoTenant) => (~memberErr /\ ~tenantRolesErr)
        /\ memberErr => ~tenantRolesErr
        /\ call' = [op |-> "ValidateAccess", userID |-> u, target |-> target,
                    required |-> required,
                    storeErr |-> (rolesErr \/ memberErr \/ tenantRolesErr),
                    err |-> ValidateAccess(u, target, required, rolesErr, memberErr,
                                           tenantRolesErr)]
        /\ UNCHANGED <<storeVars, reqVars>>

\* A caller logs in.
CallLogin ==
    \E email \in Emails, password \in Passwords,
       lookupErr \in BOOLEAN, verifyErr \in BOOLEAN, tenantErr \in BOOLEAN :
        /\ call = NoCall
        /\ Cardinality({ e \in {"l", "v", "t"} :
                            \/ e = "l" /\ lookupErr
                            \/ e = "v" /\ verifyErr
                            \/ e = "t" /\ tenantErr }) <= 1
        /\ LET r == Login(email, password, lookupErr, verifyErr, tenantErr, now) IN
           call' = [op |-> "Login", email |-> email, password |-> password,
                    storeErr |-> (lookupErr \/ verifyErr \/ tenantErr), at |-> now,
                    err |-> r.err, pair |-> r.pair, outUser |-> r.userID]
        /\ UNCHANGED <<storeVars, reqVars>>

\* A caller invokes BuildAuthContext.
CallBuildAuthContext ==
    \E u \in Users, target \in TenantOpt, rolesErr \in BOOLEAN, tenantRolesErr \in BOOLEAN :
        /\ call = NoCall
        /\ (rolesErr \/ target = NoTenant) => ~tenantRolesErr
        /\ LET r == BuildAuthContext(u, target, rolesErr, tenantRolesErr) IN
           call' = [op |-> "BuildAuthContext", userID |-> u, target |-> target,
                    rolesErr |-> rolesErr, tenantRolesErr |-> tenantRolesErr,
                    err |-> r.err, ctx |-> r.ctx]
        /\ UNCHANGED <<storeVars, reqVars>>

\* Time passes.
Tick ==
    /\ call = NoCall
    /\ now < MaxTime
    /\ now' = now + 1
    /\ UNCHANGED <<members, userRoles, grants, tenantRows, conns, reqVars, call>>

\* System role sets of the users in SpecAuth.
RoleSets == {{}, {RoleAdmin}, {RoleTenantSuper}}

\* The tenant_role rows in SpecAuth: none, TENANT_SUPER for every membership,
\* or INTERNAL for every membership in the first tenant.
GrantSets(m) ==
    { {},
      { <<mt[1], mt[2], RoleTenantSuper>> : mt \in m },
      { <<mt[1], mt[2], RoleInternal>> : mt \in { x \in m : x[2] = 1 } } }

InitAuth ==
    /\ members \in SUBSET (Users \X Tenants)
    /\ userRoles \in [Users -> RoleSets]
    /\ grants \in GrantSets(members)
    /\ now = 0
    /\ RequestIdle
    /\ call = NoCall
    /\ ServicesIdle

NextAuth ==
    \/ CallSwitchTenantContext
    \/ CallValidateAccess
    \/ CallBuildAuthContext
    \/ CallLogin
    \/ Tick

SpecAuth == InitAuth /\ [][NextAuth]_vars

\* ------------------------------------------------------- token codec calls

\* What a caller can hand to ValidateToken: a token the codec issued, with its
\* header rewritten to any algorithm and a signature that verifies or not.
PresentedTokens ==
    { [k EXCEPT !.alg = a, !.sig = sg] :
        k \in IssuedTokens, a \in Algs, sg \in {"ok", "bad"} }

\* What a caller can hand to RefreshToken: the refresh or the access token of
\* a pair the codec issued, or a forgery.
Usernames == { UsernameOf(u) : u \in Users } \cup {""}
IssuedPairs ==
    { GenerateTokenPair(u, UsernameOf(u), t, at) :
        u \in Users, t \in TenantOpt, at \in 0 .. MaxTime }
RefreshInputs ==
    { p.refresh : p \in IssuedPairs } \cup { p.access : p \in IssuedPairs } \cup {ForgedToken}

CallValidateToken ==
    \E k \in PresentedTokens :
        /\ call = NoCall
        /\ LET v == ValidateToken(k, now) IN
           call' = [op |-> "ValidateToken", token |-> k, at |-> now,
                    err |-> v.err, claims |-> v.claims]
        /\ UNCHANGED <<storeVars, reqVars>>

CallGenerateTokenPair ==
    \E u \in Users, name \in Usernames, target \in TenantOpt :
        /\ call = NoCall
        /\ call' = [op |-> "GenerateTokenPair", userID |-> u, username |-> name,
                    target |-> target, at |-> now, err |-> "",
                    pair |-> GenerateTokenPair(u, name, target, now)]
        /\ UNCHANGED <<storeVars, reqVars>>

CallRefreshToken ==
    \E k \in RefreshInputs, target \in TenantOpt :
        /\ call = NoCall
        /\ LET r == RefreshToken(k, target, now) IN
           call' = [op |-> "RefreshToken", token |-> k, target |-> target, at |-> now,
                    err |-> r.err, pair |-> r.pair]
        /\ UNCHANGED <<storeVars, reqVars>>

\* The Authorization header as AuthMiddleware reads it: Header.Get gives ""
\* for an absent header (NoHeader); otherwise strings.Split(authHeader, " ")
\* gives a first word and the words after it, which are token strings or empty.
NoHeader == [scheme |-> "", creds |-> <<>>]
Schemes == {"Bearer", "Basic"}
CarriedTokens ==
    { generateToken(u, UsernameOf(u), NoTenant, AccessExpiration, 0) : u \in Users }
        \cup {NoToken, ForgedToken}
AuthHeaders ==
    {NoHeader} \cup
    { [scheme |-> sc, creds |-> cr] :
        sc \in Schemes,
        cr \in {<<>>} \cup { <<k>> : k \in CarriedTokens }
                      \cup { <<k, NoToken>> : k \in CarriedTokens } }

\* The value of the auth_token cookie; NoToken stands for no cookie and for a
\* cookie with an empty value, which the code treats alike.
Cookies == CarriedTokens

\* The token of the header alone: taken only from a header of exactly two
\* words whose first is Bearer.
TokenOfHeader(header) ==
    IF header # NoHeader /\ 1 + Len(header.creds) = 2 /\ header.scheme = "Bearer"
    THEN header.creds[1] ELSE NoToken

\* AuthMiddleware's choice of tokenString: the header's token, and the cookie
\* whenever the header gave none.
ExtractToken(header, cookie) ==
    IF TokenOfHeader(header) # NoToken THEN TokenOfHeader(header) ELSE cookie

\* AuthMiddleware on a request with the given header and cookie: 401 without
\* a token or with one ValidateToken refuses, else next.ServeHTTP with the
\* claims' user in the context.
CallAuthMiddleware ==
    \E header \in AuthHeaders, cookie \in Cookies :
        /\ call = NoCall
        /\ LET k == ExtractToken(header, cookie)
               v == ValidateToken(k, now)
               ok == k # NoToken /\ v.err = ""
           IN
           call' = [op |-> "AuthMiddleware", header |-> header, cookie |-> cookie,
                    token |-> k, at |-> now,
                    status |-> IF ok THEN NotWritten ELSE StatusUnauthorized,
                    forwarded |-> ok,
                    userID |-> IF ok THEN v.claims.UserID ELSE NoUser]
        /\ UNCHANGED <<storeVars, reqVars>>

\* DBOrderService.  An order as the operations read it, and the operations.
Orders ==
    [ID : {0, 1}, TenantID : TenantOpt, UserID : {NoUser, Requester},
     OrderNumber : {"", "ORD-001"}, Status : {"", "paid"}, TotalAmount : {-1, 0}]
OrderOps == {"GetOrder", "ListOrders", "CreateOrder", "UpdateOrder", "DeleteOrder",
             "CountOrders"}

\* The input validation CreateOrder and UpdateOrder open with (CreateOrder
\* fills in an empty status); the other operations have none.
InvalidInput(op, o) ==
    CASE op = "CreateOrder" ->
            o.TenantID <= 0 \/ o.UserID <= 0 \/ o.OrderNumber = "" \/ o.TotalAmount < 0
      [] op = "UpdateOrder" ->
            \/ o.ID <= 0 \/ o.TenantID <= 0 \/ o.UserID <= 0 \/ o.OrderNumber = ""
            \/ o.Status = "" \/ o.TotalAmount < 0
      [] OTHER -> FALSE

\* One operation, called with a context that carries tenantID (or none) and a
\* bound transaction (or none); outcome is what the statement returns when it
\* is reached.  accessed: a statement was sent to the database.
OrderService(op, tenantID, txBound, o, outcome) ==
    IF InvalidInput(op, o)
    THEN [err |-> "ErrInvalidInput", accessed |-> FALSE]
    ELSE IF tenantID = NoTenant
    THEN [err |-> "ErrNoTenantContext", accessed |-> FALSE]
    ELSE IF op \in {"CreateOrder", "UpdateOrder"} /\ o.TenantID # tenantID
    THEN [err |-> "ErrInvalidInput", accessed |-> FALSE]
    ELSE IF ~txBound
    THEN [err |-> "ErrDBOperation", accessed |-> FALSE]
    ELSE [err |-> outcome, accessed |-> TRUE]

StatementOutcomes(op) ==
    {"", "ErrDBOperation"} \cup
    (IF op \in {"GetOrder", "UpdateOrder", "DeleteOrder"} THEN {"ErrOrderNotFound"} ELSE {})

CallOrderService ==
    \E op \in OrderOps, tenantID \in TenantOpt, txBound \in BOOLEAN, o \in Orders :
      \E outcome \in StatementOutcomes(op) :
        /\ call = NoCall
        /\ LET r == OrderService(op, tenantID, txBound, o, outcome) IN
           call' = [op |-> "OrderService", method |-> op, tenant |-> tenantID,
                    txBound |-> txBound, order |-> o, at |-> now,
                    err |-> r.err, accessed |-> r.accessed]
        /\ UNCHANGED <<storeVars, reqVars>>

\* The codec needs no rows of the stores.
InitCodec ==
    /\ members = {}
    /\ userRoles = [u \in Users |-> {}]
    /\ grants = {}
    /\ now = 0
    /\ RequestIdle
    /\ call = NoCall
    /\ ServicesIdle

NextCodec ==
    \/ CallValidateToken
    \/ CallGenerateTokenPair
    \/ CallRefreshToken
    \/ CallAuthMiddleware
    \/ CallOrderService
    \/ Tick

SpecCodec == InitCodec /\ [][NextCodec]_vars

\* ------------------------------------------------ tenant and role services

\* The calls SpecStore follows act on the requester's rows in every tenant;
\* AssignTenantRole is handed the id of TENANT_SUPER.
SvcUsers == {Requester}
SvcRoles == {RoleTenantSuper}
ServiceOps == {"AssignTenantRole", "AddTenantMember", "RemoveTenantMember", "DeleteTenant"}

\* The first statement of each call.
FirstPc(op) ==
    CASE op = "AssignTenantRole" -> "check"
      [] op = "AddTenantMember" -> "insertMember"
      [] op = "RemoveTenantMember" -> "delRoles"
      [] op = "DeleteTenant" -> "delMembers"

IsOpen(c) == c.pc \notin {"idle", "done"}
Others(p) == { q \in Procs \ {p} : IsOpen(conns[q]) }

\* Rows other transactions have written and not committed (row locks), and
\* tenant rows they reference from rows they inserted (key-share locks).
LockedM(p) == UNION { conns[q].insM \cup conns[q].delM : q \in Others(p) }
LockedG(p) == UNION { conns[q].insG \cup conns[q].delG : q \in Others(p) }
LockedT(p) == UNION { conns[q].delT : q \in Others(p) }
SharedT(p) == { row[2] : row \in UNION { conns[q].insM \cup conns[q].insG : q \in Others(p) } }

\* defer tx.Rollback() after an error return: nothing of the call is kept.
Rollback(c, e) ==
    [NoConn EXCEPT !.op = c.op, !.user = c.user, !.tenant = c.tenant, !.role = c.role,
                   !.pc = "done", !.raced = c.raced, !.err = e]

\* Caller p's record becomes c; when rows were committed, the calls still in
\* progress have run beside a commit.
Put(p, c, committed) ==
    conns' = [q \in Procs |->
                IF q = p THEN c
                ELSE IF committed /\ IsOpen(conns[q])
                     THEN [conns[q] EXCEPT !.raced = TRUE] ELSE conns[q]]

storeFrame == <<userRoles, now, reqVars, call>>

\* A caller starts a call: BeginTx, or nothing yet for the single statement
\* of AddTenantMember.
BeginCall(p) ==
    /\ ~IsOpen(conns[p])
    /\ \E op \in ServiceOps, u \in SvcUsers, t \in Tenants, r \in SvcRoles :
        Put(p, [NoConn EXCEPT !.op = op, !.user = u, !.tenant = t, !.role = r,
                              !.pc = FirstPc(op)], FALSE)
    /\ UNCHANGED <<members, grants, tenantRows, storeFrame>>

\* AssignTenantRole: SELECT EXISTS(... FROM tenant_member ...), which reads
\* the committed rows and waits for no lock.
SelectIsMember(p) ==
    LET c == conns[p] IN
    /\ c.op = "AssignTenantRole" /\ c.pc = "check"
    /\ LET isMember == <<c.user, c.tenant>> \in members IN
       Put(p, [c EXCEPT !.isMember = isMember,
                        !.pc = IF isMember THEN "insertRole" ELSE "insertMember"], FALSE)
    /\ UNCHANGED <<members, grants, tenantRows, storeFrame>>

\* INSERT INTO tenant_member ... ON CONFLICT DO NOTHING: inside the
\* transaction of AssignTenantRole, or on its own in AddTenantMember.
InsertMember(p) ==
    LET c == conns[p]
        row == <<c.user, c.tenant>>
        isNew == row \notin members
    IN
    /\ c.op \in {"AssignTenantRole", "AddTenantMember"} /\ c.pc = "insertMember"
    /\ row \notin LockedM(p) /\ c.tenant \notin LockedT(p)
    /\ IF c.tenant \notin tenantRows
       THEN /\ Put(p, Rollback(c, "db"), FALSE)
            /\ UNCHANGED members
       ELSE IF c.op = "AddTenantMember"
       THEN /\ members' = members \cup {row}
            /\ Put(p, [c EXCEPT !.pc = "done",
                                !.insM = IF isNew THEN {row} ELSE {}], isNew)
       ELSE /\ Put(p, [c EXCEPT !.pc = "insertRole",
                                !.insM = IF isNew THEN {row} ELSE {}], FALSE)
            /\ UNCHANGED members
    /\ UNCHANGED <<grants, tenantRows, storeFrame>>

\* AssignTenantRole: INSERT INTO tenant_role ... ON CONFLICT DO NOTHING.
InsertRole(p) ==
    LET c == conns[p]
        row == <<c.user, c.tenant, c.role>>
    IN
    /\ c.op = "AssignTenantRole" /\ c.pc = "insertRole"
    /\ row \notin LockedG(p) /\ c.tenant \notin LockedT(p)
    /\ IF c.tenant \notin tenantRows
       THEN Put(p, Rollback(c, "db"), FALSE)
       ELSE Put(p, [c EXCEPT !.pc = "commit",
                             !.insG = IF row \in grants THEN {} ELSE {row}], FALSE)
    /\ UNCHANGED <<members, grants, tenantRows, storeFrame>>

\* The mutant of MatchedRoles in which RemoveTenantMember deletes no grant.
MatchedRolesKeepsGrants(c) ==
    IF c.op = "RemoveTenantMember"
    THEN {}
    ELSE { g \in grants : g[2] = c.tenant }

\* The committed rows a DELETE of the call matches.
MatchedRoles(c) ==
    IF c.op = "RemoveTenantMember"
    THEN { g \in grants : g[1] = c.user /\ g[2] = c.tenant }
    ELSE { g \in grants : g[2] = c.tenant }
MatchedMembers(c) ==
    IF c.op = "RemoveTenantMember"
    THEN { m \in members : m = <<c.user, c.tenant>> }
    ELSE { m \in members : m[2] = c.tenant }

\* DELETE FROM tenant_role WHERE ... of RemoveTenantMember and DeleteTenant.
DeleteRoles(p) ==
    LET c == conns[p] IN
    /\ c.op \in {"RemoveTenantMember", "DeleteTenant"} /\ c.pc = "delRoles"
    /\ MatchedRoles(c) \cap LockedG(p) = {}
    /\ Put(p, [c EXCEPT !.delG = MatchedRoles(c),
                        !.pc = IF c.op = "RemoveTenantMember" THEN "delMember"
                               ELSE "delTenant"], FALSE)
    /\ UNCHANGED <<members, grants, tenantRows, storeFrame>>

\* DELETE FROM tenant_member WHERE ...: in RemoveTenantMember followed by the
\* RowsAffected test, in DeleteTenant the first statement.
DeleteMembers(p) ==
    LET c == conns[p] IN
    /\ \/ c.op = "RemoveTenantMember" /\ c.pc = "delMember"
       \/ c.op = "DeleteTenant" /\ c.pc = "delMembers"
    /\ MatchedMembers(c) \cap LockedM(p) = {}
    /\ IF c.op = "RemoveTenantMember" /\ MatchedMembers(c) = {}
       THEN Put(p, Rollback(c, "not found"), FALSE)
       ELSE Put(p, [c EXCEPT !.delM = MatchedMembers(c),
                             !.pc = IF c.op = "RemoveTenantMember" THEN "commit"
                                    ELSE "delRoles"], FALSE)
    /\ UNCHANGED <<members, grants, tenantRows, storeFrame>>

\* DeleteTenant: DELETE FROM tenant WHERE id = $1 and the RowsAffected test.
\* The rows of tenant_member and tenant_role that reference the tenant go
\* with it (ON DELETE CASCADE).
DeleteTenantRow(p) ==
    LET c == conns[p] IN
    /\ c.op = "DeleteTenant" /\ c.pc = "delTenant"
    /\ c.tenant \notin LockedT(p) \cup SharedT(p)
    /\ MatchedMembers(c) \cap LockedM(p) = {}
    /\ MatchedRoles(c) \cap LockedG(p) = {}
    /\ IF c.tenant \notin tenantRows
       THEN Put(p, Rollback(c, "not found"), FALSE)
       ELSE Put(p, [c EXCEPT !.delT = {c.tenant},
                             !.delM = @ \cup MatchedMembers(c),
                             !.delG = @ \cup MatchedRoles(c),
                             !.pc = "commit"], FALSE)
    /\ UNCHANGED <<members, grants, tenantRows, storeFrame>>

\* tx.Commit(): the rows the transaction wrote become the committed rows, or
\* Commit fails and nothing does.
Commit(p) ==
    LET c == conns[p] IN
    /\ c.pc = "commit"
    /\ \E ok \in BOOLEAN :
        IF ok
        THEN /\ members' = (members \ c.delM) \cup c.insM
             /\ grants' = (grants \ c.delG) \cup c.insG
             /\ tenantRows' = tenantRows \ c.delT
             /\ Put(p, [c EXCEPT !.pc = "done"],
                    c.insM \cup c.delM \cup c.insG \cup c.delG # {} \/ c.delT # {})
        ELSE /\ Put(p, Rollback(c, "db"), FALSE)
             /\ UNCHANGED <<members, grants, tenantRows>>
    /\ UNCHANGED storeFrame

\* A statement of an open call returns an error: the call returns it and the
\* deferred Rollback runs.
StatementFails(p) ==
    LET c == conns[p] IN
    /\ IsOpen(c) /\ c.pc # "commit"
    /\ Put(p, Rollback(c, "db"), FALSE)
    /\ UNCHANGED <<members, grants, tenantRows, storeFrame>>

\* Every grant belongs to a membership when the calls start.
InitStore ==
    /\ members \in SUBSET (SvcUsers \X Tenants)
    /\ userRoles = [u \in Users |-> {}]
    /\ grants \in SUBSET { <<m[1], m[2], r>> : m \in members, r \in SvcRoles }
    /\ now = 0
    /\ RequestIdle
    /\ call = NoCall
    /\ ServicesIdle

NextStore ==
    \E p \in Procs :
        \/ BeginCall(p)
        \/ SelectIsMember(p)
        \/ InsertMember(p)
        \/ InsertRole(p)
        \/ DeleteRoles(p)
        \/ DeleteMembers(p)
        \/ DeleteTenantRow(p)
        \/ Commit(p)
        \/ StatementFails(p)

SpecStore == InitStore /\ [][NextStore]_vars

\* ------------------------------------------- revocation between requests

\* The caller that revokes, and the mark its call leaves in the trace of the
\* request that was served before it.
Revoker == CHOOSE p \in Procs : \A q \in Procs : p <= q
Revoked == "RemoveTenantMember"

\* A whole RemoveTenantMember call, made while no request is being served and
\* no other service call runs: both DELETEs, the RowsAffected test, Commit.
RevokeMembership ==
    /\ phase \in {"idle", "done"}
    /\ conns[Revoker].op = "none"
    /\ \E t \in Tenants :
        LET c == [NoConn EXCEPT !.op = "RemoveTenantMember", !.user = Requester,
                                !.tenant = t, !.pc = "delRoles"]
        IN
        IF MatchedMembers(c) = {}
        THEN /\ conns' = [conns EXCEPT ![Revoker] = Rollback(c, "not found")]
             /\ UNCHANGED <<members, grants>>
        ELSE /\ conns' = [conns EXCEPT ![Revoker] =
                            [c EXCEPT !.pc = "done", !.delG = MatchedRoles(c),
                                      !.delM = MatchedMembers(c)]]
             /\ members' = members \ MatchedMembers(c)
             /\ grants' = grants \ MatchedRoles(c)
    /\ trace' = Append(trace, Revoked)
    /\ UNCHANGED <<userRoles, now, tenantRows, call, req, idx, ctx, faults, boundTenant,
                   rwStatus, txState, sessionFilter, cancelled, wire, panicVal, raised,
                   queryFilter, handlerCode, clearErr, phase>>

\* The requester starts as a member of every tenant, with TENANT_SUPER there.
InitRevoke ==
    /\ Init
    /\ \A t \in Tenants : <<Requester, t>> \in members
    /\ grants = { <<Requester, t, RoleTenantSuper>> : t \in Tenants }

NextRevoke ==
    \/ Next
    \/ RevokeMembership

SpecRevoke == InitRevoke /\ [][NextRevoke]_vars

\* ------------------------------------------- transaction manager, re-entry

\* Transactions are numbered in the order sql.DB.BeginTx opens them; NoTx is
\* a context without a value under TxKey.
NoTx == 0
MaxOpened == 3
MaxDepth == 4

\* The mutant of ReusesBound that never finds a transaction in the context.
ReusesBoundNever(given) == FALSE

\* ctx.Value(TxKey).(*sql.Tx) succeeded.
ReusesBound(given) == given # NoTx

\* Manager.Begin with a context carrying given; id is the transaction
\* BeginTx opens when it is called and succeeds.
Begin(given, beginOk, id) ==
    IF ReusesBound(given) THEN [tx |-> given, began |-> FALSE, err |-> ""]
    ELSE IF beginOk THEN [tx |-> id, began |-> TRUE, err |-> ""]
    ELSE [tx |-> NoTx, began |-> FALSE, err |-> "failed to begin transaction"]

\* The context fn runs in, in Manager.WithTransaction.
WithTransactionEnter(given, beginOk, id) ==
    IF ReusesBound(given) THEN [tx |-> given, began |-> FALSE, err |-> ""]
    ELSE IF beginOk THEN [tx |-> id, began |-> TRUE, err |-> ""]
    ELSE [tx |-> NoTx, began |-> FALSE, err |-> "failed to begin transaction"]

\* The request's code: root is the transaction in the request context (the
\* binder's, or none where the binder is not mounted); stack holds the
\* contexts of the calls in progress, innermost last, each with the
\* transaction it carries and whether the call that made it must finish it.
NoLast == [fn |-> "none", given |-> NoTx, got |-> NoTx, began |-> FALSE, err |-> ""]
TxIdle(root) ==
    [op |-> "Tx", root |-> root, stack |-> <<>>,
     opened |-> IF root = NoTx THEN 0 ELSE 1,
     live |-> IF root = NoTx THEN {} ELSE {root}, last |-> NoLast]
TopTx(c) == IF c.stack = <<>> THEN c.root ELSE c.stack[Len(c.stack)].tx

txFrame == <<storeVars, reqVars>>

\* Manager.Begin is called with the current context; the caller goes on in
\* the context Begin returned, or drops it.
CallBegin ==
    \E beginOk \in BOOLEAN, keep \in BOOLEAN :
        LET given == TopTx(call)
            r == Begin(given, beginOk, call.opened + 1)
        IN
        /\ call.op = "Tx"
        /\ r.began => call.opened < MaxOpened
        /\ Len(call.stack) < MaxDepth
        /\ call' = [call EXCEPT
                      !.opened = IF r.began THEN @ + 1 ELSE @,
                      !.live = IF r.began THEN @ \cup {r.tx} ELSE @,
                      !.stack = IF r.err = "" /\ keep
                                THEN Append(@, [tx |-> r.tx, owns |-> r.began])
                                ELSE @,
                      !.last = [fn |-> "Begin", given |-> given, got |-> r.tx,
                                began |-> r.began, err |-> r.err]]
        /\ UNCHANGED txFrame

\* Manager.WithTransaction is called with the current context, up to the
\* call of fn.
CallWithTransaction ==
    \E beginOk \in BOOLEAN :
        LET given == TopTx(call)
            r == WithTransactionEnter(given, beginOk, call.opened + 1)
        IN
        /\ call.op = "Tx"
        /\ r.began => call.opened < MaxOpened
        /\ Len(call.stack) < MaxDepth
        /\ call' = [call EXCEPT
                      !.opened = IF r.began THEN @ + 1 ELSE @,
                      !.live = IF r.began THEN @ \cup {r.tx} ELSE @,
                      !.stack = IF r.err = ""
                                THEN Append(@, [tx |-> r.tx, owns |-> r.began])
                                ELSE @,
                      !.last = [fn |-> "WithTransaction", given |-> given, got |-> r.tx,
                                began |-> r.began, err |-> r.err]]
        /\ UNCHANGED txFrame

\* The innermost call returns: fn of WithTransaction, or the code that went
\* on after Begin.  The one that opened the transaction commits it or rolls
\* it back; one that was handed it leaves it open.
ReturnFromCall ==
    /\ call.op = "Tx" /\ call.stack # <<>>
    /\ LET top == call.stack[Len(call.stack)] IN
       call' = [call EXCEPT
                  !.stack = SubSeq(@, 1, Len(@) - 1),
                  !.live = IF top.owns THEN @ \ {top.tx} ELSE @,
                  !.last = [NoLast EXCEPT !.fn = "return", !.given = top.tx]]
    /\ UNCHANGED txFrame

InitTx ==
    /\ members = {}
    /\ userRoles = [u \in Users |-> {}]
    /\ grants = {}
    /\ now = 0
    /\ RequestIdle
    /\ ServicesIdle
    /\ \E root \in {NoTx, 1} : call = TxIdle(root)

NextTx ==
    \/ CallBegin
    \/ CallWithTransaction
    \/ ReturnFromCall

SpecTx == InitTx /\ [][NextTx]_vars

\* ================================================================ claims

Positions(e) == { i \in 1 .. Len(trace) : trace[i] = e }
Count(e) == Cardinality(Positions(e))
Closes == Positions("Commit") \cup Positions("Rollback")
HandlerRan == Positions("handler") # {}
\* next.ServeHTTP was called by the binder (Begin and SetTenantContext succeeded).
NextCalled == idx >= 1

\* ---- C1
\* C1 (as claimed): a request that reaches a route handler through the
\* registered chain with a resolved tenant scope T (token scoped to T, the
\* requester a member of T or a platform admin) has had SetTenantContext(T)
\* issued on its transaction before the handler ran, and the handler's domain
\* queries see the session filter equal to T.
C1_ScopeSetBeforeHandler ==
    (/\ req.chain = "registered"
     /\ HandlerRan
     /\ ctx.userID # NoUser
     /\ ctx.tenantID # NoTenant
     /\ UnmarshalClaims(req.token.payload).TenantID = ctx.tenantID
     /\ (<<ctx.userID, ctx.tenantID>> \in members \/ RoleAdmin \in userRoles[ctx.userID]))
    => /\ \E i \in Positions("SetTenantContext") : \A h \in Positions("handler") : i < h
       /\ queryFilter = ctx.tenantID

\* ---- C2
\* C2 (as claimed): whenever SetTenantContext was issued on a request's
\* transaction and the request went on to its handler, ClearTenantContext is
\* issued on that transaction before it is committed or rolled back, on the
\* normal return and on a handler panic alike.
C2_ClearBeforeRelease ==
    (phase = "done" /\ NextCalled /\ Positions("SetTenantContext") # {})
    => \A c \in Closes : \E k \in Positions("ClearTenantContext") : k < c

\* ---- C3
\* C3: once Begin succeeded, the binder invokes exactly one of Commit and
\* Rollback on the transaction by the time it returns or unwinds (none while
\* the chain is still running), and the transaction is then not open.
C3_ExactlyOneClose ==
    /\ (phase \in {"running", "unwinding"}) => (Closes = {} /\ txState # "none")
    /\ (phase = "done" /\ txState # "none")
       => (Cardinality(Closes) = 1 /\ txState \in {"committed", "rolledback"})

\* A request with a bound tenant whose transaction the binder committed.
C3_Witness ==
    /\ phase = "done"
    /\ txState = "committed"
    /\ Positions("ClearTenantContext") # {}

\* ---- C4
\* C4: when the handler panics, the binder makes exactly one Rollback and no
\* Commit and re-raises the handler's panic value to its caller.
C4_PanicRollsBackAndReraises ==
    (phase = "done" /\ panicVal # NoPanic)
    => (Count("Rollback") = 1 /\ Count("Commit") = 0 /\ raised = panicVal
        /\ txState = "rolledback")

C4_Witness ==
    phase = "done" /\ panicVal = "p2" /\ raised = "p2" /\ boundTenant # NoTenant

\* ---- C5
\* C5: when the chain behind the binder returns without panicking, the binder
\* calls Commit if the status is in 200..499 and Rollback if it is 500 or
\* above; a handler that never called WriteHeader counts as 200.
C5_CommitByStatusClass ==
    (phase = "done" /\ NextCalled /\ panicVal = NoPanic)
    => LET status == IF HandlerRan
                     THEN (IF handlerCode = NotWritten THEN 200 ELSE handlerCode)
                     ELSE rwStatus
       IN /\ (status >= 200 /\ status <= 499) => (Count("Commit") = 1 /\ Count("Rollback") = 0)
          /\ (status >= 500) => (Count("Rollback") = 1 /\ Count("Commit") = 0)
          /\ (HandlerRan /\ handlerCode = NotWritten) => Count("Commit") = 1

C5_Witness ==
    /\ phase = "done" /\ HandlerRan /\ handlerCode = 499 /\ txState = "committed"

\* ---- C6
\* C6 (as claimed): if ClearTenantContext fails at the end of a request, the
\* transaction is rolled back, never committed, and the response is 500.
C6_ClearFailureIsFatal ==
    (phase = "done" /\ clearErr)
    => (txState = "rolledback" /\ wire = StatusInternalServerError)

\* ---- C7
\* C7: if the request context is cancelled while the transaction is bound, the
\* deferred finalisation still runs and the transaction ends rolled back: it
\* is neither committed nor left open.
C7_CancelRollsBack ==
    /\ cancelled => txState = "rolledback"
    /\ (phase = "done" /\ cancelled) => Cardinality(Closes) = 1

\* A cancelled request whose handler answered 200: the binder calls Commit,
\* which the closed transaction refuses.
C7_Witness ==
    /\ phase = "done" /\ cancelled /\ rwStatus = StatusOK /\ HandlerRan
    /\ Count("Commit") = 1 /\ txState = "rolledback"

\* ---- C8
Gates == {"RequireAdmin", "RequireTenantContext", "RequireTenantMember", "RequireTenantSuper"}
GatePositions == { i \in 1 .. Len(trace) : trace[i] \in Gates }
Protected == req.chain = "registered" /\ req.route \in Routes \ {"public"}
\* The gates RegisterRoutes and the order router put on each protected route.
RouteGates(route) ==
    CASE route = "admin" -> {"RequireAdmin"}
      [] route = "tenant" -> {"RequireTenantContext", "RequireTenantMember"}
      [] route = "tenantAdmin" ->
            {"RequireTenantContext", "RequireTenantMember", "RequireTenantSuper"}
      [] route = "orders" -> {"RequireTenantContext"}
      [] OTHER -> {}

\* begin, then the stages in order, then the handler, then at most one close.
OrderedStages ==
    /\ Positions("Begin") = {1}
    /\ Count("handler") <= 1
    /\ \A i \in Positions("RoleMiddleware") : i > 1 /\ trace[i - 1] = "AuthMiddleware"
    /\ \A g \in GatePositions : \A r \in Positions("RoleMiddleware") : r < g
    /\ \A g \in GatePositions : Positions("RoleMiddleware") # {}
    /\ \A h \in Positions("handler") :
          /\ \A i \in 1 .. Len(trace) :
                trace[i] \in Gates \cup {"AuthMiddleware", "RoleMiddleware", "Begin"} => i < h
          /\ { trace[i] : i \in GatePositions } = RouteGates(req.route)
          /\ Cardinality(GatePositions) = Cardinality(RouteGates(req.route))
          /\ Positions("RoleMiddleware") # {}
          /\ ctx.userID # NoUser
          /\ wire \notin {StatusUnauthorized, StatusForbidden} \/ handlerCode = wire
    /\ \A c \in Closes : \A i \in 1 .. Len(trace) : i <= c
    /\ (phase = "done" /\ HandlerRan) => Cardinality(Closes) = 1

Called == call.op = "SwitchTenantContext"
\* The requester is authorised for the target of the call.
Authorised ==
    IF call.target = NoTenant THEN RoleAdmin \in userRoles[call.userID]
    ELSE <<call.userID, call.target>> \in members
CurrentTokenValid == ValidateToken(call.token, call.at).err = ""

\* C9 (as claimed): absent store errors, SwitchTenantContext issues a token if
\* and only if the requester is authorised for the target; in every other case
\* it fails with ErrUnauthorized and issues no token.
C9_TokenIffAuthorised ==
    (Called /\ ~call.storeErr)
    => /\ (call.out # NoToken) <=> Authorised
       /\ (call.out = NoToken) => call.err = "ErrUnauthorized"

\* C9 (amended): absent store errors, SwitchTenantContext issues a token if and
\* only if the requester is authorised for the target (PlatformAdmin for the
\* nil target, membership for a tenant target, with no admin short-circuit)
\* and the current token validates; an unauthorised requester gets
\* ErrUnauthorized and no token, and an authorised requester whose current
\* token does not validate gets the codec's validation error and no token.
C9_TokenIffAuthorisedAndValid ==
    (Called /\ ~call.storeErr)
    => /\ (call.out # NoToken) <=> (Authorised /\ CurrentTokenValid)
       /\ (call.out # NoToken) <=> (call.err = "")
       /\ ~Authorised => call.err = "ErrUnauthorized"
       /\ (Authorised /\ ~CurrentTokenValid)
            => call.err = ValidateToken(call.token, call.at).err

\* A platform admin who is no member of the tenant is refused the switch.
C9_Witness ==
    /\ Called /\ ~call.storeErr /\ call.target # NoTenant
    /\ RoleAdmin \in userRoles[call.userID]
    /\ ~Authorised /\ CurrentTokenValid
    /\ call.err = "ErrUnauthorized" /\ call.out = NoToken

\* ---- C10
\* C10 (as claimed): when the target is a genuine membership of userID,
\* SwitchTenantContext(userID, currentToken, target), given a current token
\* that validates, succeeds and returns a token that validates to claims
\* carrying that same userID and that same tenant.
C10_SwitchRoundTrips ==
    (Called /\ ~call.storeErr /\ call.target # NoTenant
        /\ <<call.userID, call.target>> \in members /\ CurrentTokenValid)
    => /\ call.err = ""
       /\ LET v == ValidateToken(call.out, call.at)
          IN v.err = "" /\ v.claims.UserID = call.userID
                        /\ v.claims.TenantID = call.target

\* ---- C11
\* The k-th stage entered by a request through the registered chain.
StageAt(k) == trace[k + 1]
StagesEntered == IF req.chain = "registered" THEN 1 .. Len(faults) ELSE {}
RoleRuns == { k \in StagesEntered : StageAt(k) = "RoleMiddleware" }
\* Stage k ended the chain: nothing behind it was invoked.
StoppedAt(k) == k = Len(faults) /\ ~HandlerRan /\ phase \in {"unwinding", "done"}
\* Stage k called next.ServeHTTP.
ForwardedAt(k) == k < Len(faults) \/ HandlerRan \/ (k = Len(faults) /\ phase = "running")
\* What the role stage's k-th run got from its lookups: a failed membership
\* check counts as no membership, a failed role lookup as no roles.
SeenMember(k) == "member" \notin faults[k] /\ <<ctx.userID, ctx.tenantID>> \in members
SeenAdmin(k) == "roles" \notin faults[k] /\ RoleAdmin \in userRoles[ctx.userID]

\* C11: the role stage rejects a request with 403, invoking nothing behind
\* it, if and only if a tenant scope is present and the requester is neither
\* a member of it nor a platform admin (as its lookups report them; with no
\* store error, as the stores hold them); a request without tenant scope is
\* never rejected by the role stage.
C11_RoleStageRejectsIffOutsider ==
    \A k \in RoleRuns :
        IF ctx.tenantID # NoTenant /\ ~SeenMember(k) /\ ~SeenAdmin(k)
        THEN StoppedAt(k) /\ rwStatus = StatusForbidden /\ wire = StatusForbidden
        ELSE ForwardedAt(k)

\* A non-member, non-admin request with a tenant scope, refused by the role
\* stage with every lookup answering.
C11_Witness ==
    /\ phase = "done" /\ RoleRuns = {2} /\ StoppedAt(2) /\ faults[2] = {}
    /\ ctx.tenantID # NoTenant /\ rwStatus = StatusForbidden
    /\ <<ctx.userID, ctx.tenantID>> \notin members

\* ---- C12
\* The runs of a stage whose membership check met a store error.
MemberFaults == { k \in StagesEntered : "member" \in faults[k] }

C13_RoleLookupErrorDegrades ==
    (call.op = "BuildAuthContext" /\ call.rolesErr)
    => /\ call.err = ""
       /\ call.ctx.userID = call.userID
       /\ call.ctx.tenantID = call.target
       /\ call.ctx.roles \cap {RoleAdmin, RoleInternal} = {}

\* ---- C14
TenantRoutes == {"tenant", "tenantAdmin", "orders"}
\* An authenticated platform admin with no membership in the tenant its token
\* is scoped to, on a tenant-scoped route, whose role lookups all answered.
AdminOutsider ==
    /\ req.chain = "registered" /\ req.route \in TenantRoutes
    /\ ctx.userID # NoUser /\ ctx.tenantID # NoTenant
    /\ RoleAdmin \in userRoles[ctx.userID]
    /\ <<ctx.userID, ctx.tenantID>> \notin members
    /\ RoleRuns # {}
    /\ \A k \in RoleRuns : "roles" \notin faults[k]

\* C14: a platform admin without membership in tenant T whose request is
\* scoped to T reaches the handler of a tenant-scoped route: the role stage,
\* RequireTenantMember and RequireTenantSuper do not stop it, and it receives
\* the handler's answer, 200 when the handler answers 200 and the commit
\* goes through.
C14_AdminBypassesMembership ==
    AdminOutsider
    => /\ \A k \in StagesEntered : ~StoppedAt(k)
       /\ phase \in {"unwinding", "done"} => HandlerRan
       /\ (phase = "done" /\ panicVal = NoPanic /\ handlerCode \in {NotWritten, StatusOK}
             /\ txState = "committed")
          => wire = StatusOK

C14_Witness ==
    /\ AdminOutsider /\ req.route = "tenantAdmin" /\ phase = "done"
    /\ RoleTenantSuper \notin ctx.roles
    /\ HandlerRan /\ wire = StatusOK /\ txState = "committed"

\* ---- C15
\* The rows of the stores, read directly.
SystemRolesOf(u) == userRoles[u]
TenantRolesOf(u, t) == { r \in Roles : <<u, t, r>> \in grants }
MergedRoles(u, t) ==
    IF t # NoTenant THEN SystemRolesOf(u) \cup TenantRolesOf(u, t) ELSE SystemRolesOf(u)
LastRoleRun == CHOOSE k \in RoleRuns : \A j \in RoleRuns : j <= k

\* C15: once the role stage has forwarded a request, so when the route gates
\* and the handler run, the roles in the context are the requester's system
\* roles joined with its roles in the tenant scope if one is present, and its
\* system roles alone otherwise (a lookup that failed contributes nothing);
\* BuildAuthContext returns a context with the same roles.
C15_ContextRolesAreMerged ==
    /\ (RoleRuns # {} /\ ForwardedAt(LastRoleRun))
       => LET f == faults[LastRoleRun]
              sys == IF "roles" \in f THEN {} ELSE SystemRolesOf(ctx.userID)
              ten == IF ctx.tenantID = NoTenant \/ "tenantRoles" \in f THEN {}
                     ELSE TenantRolesOf(ctx.userID, ctx.tenantID)
          IN /\ ctx.roles = sys \cup ten
             /\ f = {} => ctx.roles = MergedRoles(ctx.userID, ctx.tenantID)
    /\ \A u \in Users, t \in TenantOpt :
          LET r == BuildAuthContext(u, t, FALSE, FALSE)
          IN r.err = "" /\ r.ctx.userID = u /\ r.ctx.tenantID = t
                        /\ r.ctx.roles = MergedRoles(u, t)

\* A handler ran for a platform admin who also holds a role in the tenant.
C15_Witness ==
    /\ HandlerRan /\ req.chain = "registered" /\ ctx.tenantID # NoTenant
    /\ faults[LastRoleRun] = {}
    /\ ctx.roles = {RoleAdmin, RoleTenantSuper}

\* ---- C16
\* C16: absent store errors, ValidateAccess(userID, tenantID, requiredRoles)
\* returns nil if and only if the user is a platform admin, or no tenant is
\* given, or the user is a member of the tenant and requiredRoles is empty or
\* shares a role with the user's roles in that tenant; otherwise it returns
\* ErrUnauthorized.
C16_ValidateAccessDecision ==
    (call.op = "ValidateAccess" /\ ~call.storeErr)
    => LET u == call.userID
           t == call.target
           ok == \/ RoleAdmin \in SystemRolesOf(u)
                 \/ t = NoTenant
                 \/ /\ <<u, t>> \in members
                    /\ (call.required = {} \/ call.required \cap TenantRolesOf(u, t) # {})
       IN /\ (call.err = "") <=> ok
          /\ ~ok => call.err = "ErrUnauthorized"

\* A member who holds TENANT_SUPER as a system role but not in the tenant is
\* refused when TENANT_SUPER is required.
C16_Witness ==
    /\ call.op = "ValidateAccess" /\ ~call.storeErr
    /\ call.target # NoTenant /\ <<call.userID, call.target>> \in members
    /\ call.required = {RoleTenantSuper}
    /\ SystemRolesOf(call.userID) = {RoleTenantSuper}
    /\ TenantRolesOf(call.userID, call.target) = {}
    /\ call.err = "ErrUnauthorized"

\* ---- C17
\* C17: absent store errors, Login returns the same result, the error
\* ErrInvalidCredentials with no token pair and user id 0, when no user has
\* the e-mail address and when a user has it but the password is wrong; with
\* the user's own password it returns a pair and the user's id.
C17_LoginFailuresIdentical ==
    (call.op = "Login" /\ ~call.storeErr)
    => LET u == GetUserByEmail(call.email) IN
       IF u = NoUser \/ call.password # PasswordOf(u)
       THEN /\ call.err = "ErrInvalidCredentials"
            /\ call.pair = NoPair
            /\ call.outUser = NoUser
       ELSE /\ call.err = "" /\ call.outUser = u /\ call.pair # NoPair

\* A wrong password for an existing user.
C17_Witness ==
    /\ call.op = "Login" /\ ~call.storeErr
    /\ GetUserByEmail(call.email) = 2 /\ call.password = "pw1"
    /\ call.err = "ErrInvalidCredentials" /\ call.pair = NoPair /\ call.outUser = NoUser

\* ---- C18
\* C18 (as claimed): ValidateToken rejects every token whose declared signing
\* algorithm differs from the one generateToken signs with, even when its
\* signature verifies under the configured secret.
C18_OnlyConfiguredAlgorithm ==
    (call.op = "ValidateToken" /\ call.token.alg # SigningMethod)
    => call.err # ""

C20_RefreshTokenUnscoped ==
    (call.op \in {"GenerateTokenPair", "RefreshToken"} /\ call.err = "")
    => LET v == ValidateToken(call.pair.refresh, call.at) IN
       /\ v.err = ""
       /\ v.claims.TenantID = NoTenant
       /\ "tenant_id" \notin DOMAIN call.pair.refresh.payload

\* A refresh that asked for a tenant: the new access token is scoped, the new
\* refresh token is not.
C20_Witness ==
    /\ call.op = "RefreshToken" /\ call.err = "" /\ call.target # NoTenant
    /\ ValidateToken(call.pair.access, call.at).claims.TenantID = call.target
    /\ ValidateToken(call.pair.refresh, call.at).claims.TenantID = NoTenant

\* ---- C30
\* C30 (as claimed): RefreshToken accepts only tokens issued as refresh
\* tokens: handed a valid access token (here one that carries a tenant, which
\* no refresh token does) it fails and returns no pair.
C30_RefreshRejectsAccessTokens ==
    (/\ call.op = "RefreshToken"
     /\ "tenant_id" \in DOMAIN call.token.payload
     /\ ValidateToken(call.token, call.at).err = "")
    => (call.err # "" /\ call.pair = NoPair)

\* ---- C24
\* The tenants a user belongs to, read from the rows.
TenantsOf(u) == { t \in Tenants : <<u, t>> \in members }

\* C24: on every successful login the access token's tenant is the user's
\* earliest membership, and the token carries no tenant exactly when the
\* user has no membership.
C24_LoginScopesToDefaultTenant ==
    (call.op = "Login" /\ call.err = "")
    => LET v == ValidateToken(call.pair.access, call.at)
           mine == TenantsOf(call.outUser)
       IN /\ v.err = ""
          /\ v.claims.UserID = call.outUser
          /\ (v.claims.TenantID = NoTenant) <=> (mine = {})
          /\ (mine # {}) => /\ v.claims.TenantID \in mine
                            /\ \A t \in mine : v.claims.TenantID <= t

\* A user with two memberships logs in and is scoped to the earlier one.
C24_Witness ==
    /\ call.op = "Login" /\ call.err = "" /\ call.outUser = 2
    /\ TenantsOf(2) = {1, 2}
    /\ ValidateToken(call.pair.access, call.at).claims.TenantID = 1

\* ---- C29
\* C29 (as claimed): a request whose bound transaction ended rolled back, by a
\* Rollback or by a Commit that failed, is never answered with a 2xx status.
C29_StatusAgreesWithOutcome ==
    (phase = "done" /\ txState = "rolledback" /\ ~cancelled)
    => ~(wire >= 200 /\ wire <= 299)

\* ---- C26
\* C26 (as claimed): a tenant role grant never makes a context count as a
\* platform admin's: whenever the context of a request counts as admin, and
\* whenever RequireAdmin lets a request through, the user's system roles
\* contain ADMIN.
C26_AdminOnlyFromSystemRoles ==
    (req.chain = "registered" /\ ctx.userID # NoUser)
    => /\ IsAdmin(ctx) => RoleAdmin \in SystemRolesOf(ctx.userID)
       /\ \A k \in StagesEntered :
             (StageAt(k) = "RequireAdmin" /\ ForwardedAt(k))
             => RoleAdmin \in SystemRolesOf(ctx.userID)

\* ---- C21
\* C21 (as claimed): a request whose Authorization header is present is never
\* authenticated by its cookie: it is forwarded only when the header itself
\* carries a Bearer token that ValidateToken accepts, and then as that token's
\* user.
C21_HeaderPresentIgnoresCookie ==
    (call.op = "AuthMiddleware" /\ call.header # NoHeader /\ call.forwarded)
    => LET v == ValidateToken(TokenOfHeader(call.header), call.at)
       IN /\ TokenOfHeader(call.header) # NoToken
          /\ v.err = ""
          /\ call.userID = v.claims.UserID

\* ---- C28
\* C28 (as claimed): under any interleaving of AssignTenantRole,
\* AddTenantMember, RemoveTenantMember and DeleteTenant calls, every grant in
\* the committed rows has its membership in the committed rows.
C28_NoOrphanedGrants ==
    \A g \in grants : <<g[1], g[2]>> \in members

\* ---- C22
GrantsOf(u, t) == { g \in grants : g[1] = u /\ g[2] = t }

AfterRevocation ==
    LET c == conns[Revoker]
        v == ValidateToken(req.token, now)
    IN /\ c.op = "RemoveTenantMember" /\ c.pc = "done" /\ c.err = ""
       /\ phase # "idle"
       /\ \A i \in 1 .. Len(trace) : trace[i] # Revoked
       /\ req.token # NoToken /\ v.err = ""
       /\ v.claims.UserID = c.user /\ v.claims.TenantID = c.tenant

\* C27: once RemoveTenantMember(u, T) has committed, a request on a protected
\* route that arrives later with a valid token of u scoped to T, u holding no
\* system ADMIN role, never reaches a handler: the role stage, when the
\* request gets to it, answers 403 and calls nothing behind it, and the
\* request ends with 403 unless the binder failed in front of the role stage.
C27_RevocationBindsNextRequest ==
    (AfterRevocation /\ Protected /\ RoleAdmin \notin userRoles[conns[Revoker].user])
    => /\ ~HandlerRan
       /\ \A k \in RoleRuns : StoppedAt(k) /\ rwStatus = StatusForbidden
                                /\ wire = StatusForbidden
       /\ (phase = "done" /\ wire # StatusForbidden) => (RoleRuns = {} /\ ~NextCalled)

\* A request of a removed member was refused by the role stage.
C27_Witness ==
    /\ AfterRevocation /\ Protected
    /\ RoleAdmin \notin userRoles[conns[Revoker].user]
    /\ conns[Revoker].delM # {} /\ conns[Revoker].delG # {}
    /\ phase = "done" /\ RoleRuns # {} /\ wire = StatusForbidden

\* ---- C23
\* C23 (as claimed): every order-service operation called with a context that
\* carries no tenant scope fails with ErrNoTenantContext, whatever its other
\* arguments, and sends nothing to the database.
C23_NoTenantNoAccess ==
    (call.op = "OrderService" /\ call.tenant = NoTenant)
    => (call.err = "ErrNoTenantContext" /\ ~call.accessed)

====
